---- MODULE Spec2Model ----
(***************************************************************************)
(* A model of the gopherboy emulator core: the memory management unit with *)
(* its write observers and DMA engine (src/emulator/mmu.go), the timer     *)
(* block (src/unnamed/part_000, package gameboy), the video controller     *)
(* (src/unnamed/part_001) and the interrupt toggles and rotations of the   *)
(* CPU (src/cpu_control_ops.go, src/unnamed/part_001).                     *)
(*                                                                         *)
(* The machine is threaded through the operators as one record M whose     *)
(* fields are the structs of the program (M.mmu, M.timers, M.vc, ...), so  *)
(* that a handler that calls other handlers is one operator and one        *)
(* action.  The frame counter behind the FPS printout of the video         *)
(* controller (frameCnt, lastSecond) follows the wall clock and is left    *)
(* out; the renderer is represented by the calls made to it.               *)
(***************************************************************************)
EXTENDS Integers, Sequences, FiniteSets, TLC

VARIABLES mmu, mbc, timers, vc, cpu, interruptsEnabled, panic, calls, tlog,
          vlog, last, dmaTrack, nOps

vars ==
  <<mmu, mbc, timers, vc, cpu, interruptsEnabled, panic, calls, tlog, vlog,
    last, dmaTrack, nOps>>

----------------------------------------------------------------------------
(* Bounds of the model.                                                    *)

\* Number of operations (CPU writes and ticks) explored per behaviour.
MaxBusOps == 2
MaxDmaOps == 4
MaxTimerOps == 3
MaxTacOps == 2
MaxVideoOps == 3
MaxFrameOps == 3
MaxTileOps == 1
MaxSplitOps == 2
MaxObserverOps == 3
MaxEdgeOps == 3

----------------------------------------------------------------------------
(* Fixed-width arithmetic.                                                 *)

Pow2(k) == 2 ^ k

\* bit k of v
Bit(v, k) == (v \div Pow2(k)) % 2

\* v | (1 << k)
OrBit(v, k) == IF Bit(v, k) = 1 THEN v ELSE v + Pow2(k)

\* uint8(x), uint16(x) for x >= 0
U8(x) == x % 256
U16(x) == x % 65536

----------------------------------------------------------------------------
(* Zero-initialised byte slices (make([]uint8, n)), kept as the map of     *)
(* their non-zero cells.                                                   *)

Get(arr, i) == IF i \in DOMAIN arr THEN arr[i] ELSE 0

Put(arr, i, v) ==
  IF v = 0
  THEN [j \in (DOMAIN arr) \ {i} |-> arr[j]]
  ELSE [j \in (DOMAIN arr) \cup {i} |-> IF j = i THEN v ELSE arr[j]]

Zeroed == [j \in {} |-> 0]

----------------------------------------------------------------------------
(* The memory map (spec.md section 3 and the register table of section 6). *)

bank0ROMAddr == 0
bankedROMAddr == 16384
videoRAMAddr == 32768
bankedRAMAddr == 40960
ramAddr == 49152
ramMirrorAddr == 57344
oamRAMAddr == 65024
invalidArea2Addr == 65184
ioAddr == 65280
hramAddr == 65408
lastAddr == 65535

dividerAddr == 65284
timaAddr == 65285
tmaAddr == 65286
tacAddr == 65287
ifAddr == 65295
dmaAddr == 65350
ieAddr == 65535

inBank0ROMArea(addr) == addr >= bank0ROMAddr /\ addr < bankedROMAddr
inBankedROMArea(addr) == addr >= bankedROMAddr /\ addr < videoRAMAddr
inVideoRAMArea(addr) == addr >= videoRAMAddr /\ addr < bankedRAMAddr
inBankedRAMArea(addr) == addr >= bankedRAMAddr /\ addr < ramAddr
inRAMArea(addr) == addr >= ramAddr /\ addr < ramMirrorAddr
inRAMMirrorArea(addr) == addr >= ramMirrorAddr /\ addr < oamRAMAddr
inOAMArea(addr) == addr >= oamRAMAddr /\ addr < invalidArea2Addr
inInvalidArea(addr) == addr >= invalidArea2Addr /\ addr < ioAddr
inIOArea(addr) == addr >= ioAddr /\ addr < hramAddr
inHRAMArea(addr) == addr >= hramAddr /\ addr <= lastAddr

\* The cartridge image handed to newMMU: byte i of the image is i mod 256.
cartridgeData(i) == i % 256

\* lower, _ := split16(v)
split16lower(v) == v % 256

----------------------------------------------------------------------------
(* The memory bank controller: no banking, ROM writes ignored, RAM stored. *)

mbc_at(M, addr) ==
  IF inBank0ROMArea(addr) \/ inBankedROMArea(addr)
  THEN cartridgeData(addr)
  ELSE IF inBankedRAMArea(addr) \/ inRAMArea(addr)
       THEN Get(M.mbc.ram, addr)
       ELSE 255

mbc_set(M, addr, val) ==
  IF inBankedRAMArea(addr) \/ inRAMArea(addr)
  THEN [M EXCEPT !.mbc.ram = Put(@, addr, val)]
  ELSE M

----------------------------------------------------------------------------
(* mmu.at, mmu.setNoNotify                                                 *)

\* m.bank0ROM, filled from the cartridge by newMMU and never written again
bank0ROM(i) == cartridgeData(i)

at_noMirrorOffset(M, addr) ==
  IF inBank0ROMArea(addr) THEN bank0ROM(addr - bank0ROMAddr)
  ELSE IF inBankedROMArea(addr) THEN mbc_at(M, addr)
  ELSE IF inVideoRAMArea(addr) THEN Get(M.mmu.videoRAM, addr - videoRAMAddr)
  ELSE IF inRAMArea(addr) \/ inBankedRAMArea(addr) THEN mbc_at(M, addr)
  ELSE IF inRAMMirrorArea(addr) THEN mbc_at(M, addr)
  ELSE IF inOAMArea(addr) THEN Get(M.mmu.oamRAM, addr - oamRAMAddr)
  ELSE IF inInvalidArea(addr) THEN 255
  ELSE IF inIOArea(addr) THEN Get(M.mmu.ioRAM, addr - ioAddr)
  ELSE Get(M.mmu.hram, addr - hramAddr)

at(M, addr) ==
  IF inBank0ROMArea(addr) THEN bank0ROM(addr - bank0ROMAddr)
  ELSE IF inBankedROMArea(addr) THEN mbc_at(M, addr)
  ELSE IF inVideoRAMArea(addr) THEN Get(M.mmu.videoRAM, addr - videoRAMAddr)
  ELSE IF inRAMArea(addr) \/ inBankedRAMArea(addr) THEN mbc_at(M, addr)
  ELSE IF inRAMMirrorArea(addr) THEN mbc_at(M, addr - (ramMirrorAddr - ramAddr))
  ELSE IF inOAMArea(addr) THEN Get(M.mmu.oamRAM, addr - oamRAMAddr)
  ELSE IF inInvalidArea(addr) THEN 255
  ELSE IF inIOArea(addr) THEN Get(M.mmu.ioRAM, addr - ioAddr)
  ELSE Get(M.mmu.hram, addr - hramAddr)

setNoNotify_ioOffByOne(M, addr, val) ==
  IF inBank0ROMArea(addr) \/ inBankedROMArea(addr) THEN mbc_set(M, addr, val)
  ELSE IF inVideoRAMArea(addr)
       THEN [M EXCEPT !.mmu.videoRAM = Put(@, addr - videoRAMAddr, val)]
  ELSE IF inRAMArea(addr) \/ inBankedRAMArea(addr) THEN mbc_set(M, addr, val)
  ELSE IF inRAMMirrorArea(addr)
       THEN mbc_set(M, addr - (ramMirrorAddr - ramAddr), val)
  ELSE IF inOAMArea(addr)
       THEN [M EXCEPT !.mmu.oamRAM = Put(@, addr - oamRAMAddr, val)]
  ELSE IF inInvalidArea(addr) THEN M
  ELSE IF inIOArea(addr)
       THEN [M EXCEPT !.mmu.ioRAM = Put(@, addr - ioAddr + 1, val)]
  ELSE [M EXCEPT !.mmu.hram = Put(@, addr - hramAddr, val)]

setNoNotify(M, addr, val) ==
  IF inBank0ROMArea(addr) \/ inBankedROMArea(addr) THEN mbc_set(M, addr, val)
  ELSE IF inVideoRAMArea(addr)
       THEN [M EXCEPT !.mmu.videoRAM = Put(@, addr - videoRAMAddr, val)]
  ELSE IF inRAMArea(addr) \/ inBankedRAMArea(addr) THEN mbc_set(M, addr, val)
  ELSE IF inRAMMirrorArea(addr)
       THEN mbc_set(M, addr - (ramMirrorAddr - ramAddr), val)
  ELSE IF inOAMArea(addr)
       THEN [M EXCEPT !.mmu.oamRAM = Put(@, addr - oamRAMAddr, val)]
  ELSE IF inInvalidArea(addr) THEN M
  ELSE IF inIOArea(addr)
       THEN [M EXCEPT !.mmu.ioRAM = Put(@, addr - ioAddr, val)]
  ELSE [M EXCEPT !.mmu.hram = Put(@, addr - hramAddr, val)]

----------------------------------------------------------------------------
(* Write observers and mmu.set                                             *)

dmaCycleLength == 671

\* An observer yields the machine after its side effect and the byte to store.
onDMAWrite(M, addr, val) ==
  IF M.mmu.dmaActive
  THEN [m |-> [M EXCEPT !.panic = "DMA transfer request when a transfer is already active"],
        ret |-> val]
  ELSE [m |-> [M EXCEPT !.mmu.dmaActive = TRUE,
                        !.mmu.dmaCursor = U16(val * 256),
                        !.mmu.dmaCycleCount = 0],
        ret |-> val]

onDividerWrite_keepsValue(M, addr, writeVal) ==
  [m |-> [M EXCEPT !.timers.cpuClock = 0], ret |-> writeVal]

onDividerWrite(M, addr, writeVal) ==
  [m |-> [M EXCEPT !.timers.cpuClock = 0], ret |-> 0]

onTACWrite_lowBitsOnly(M, addr, writeVal) ==
  [m |-> M, ret |-> writeVal % 8]

onTACWrite(M, addr, writeVal) ==
  [m |-> M, ret |-> 248 + (writeVal % 8)]

\* The call onWrite(addr, val) of the function value stored in subscribers.
onWrite(fn, M, addr, val) ==
  CASE fn = "onDMAWrite" -> onDMAWrite(M, addr, val)
    [] fn = "onDividerWrite" -> onDividerWrite(M, addr, val)
    [] fn = "onTACWrite" -> onTACWrite(M, addr, val)

\* Each observer invocation is recorded in M.calls with the byte the
\* destination held when the observer ran.
set_storesBeforeNotify(M, addr, val) ==
  IF addr \in DOMAIN M.mmu.subscribers
  THEN LET M1 == setNoNotify(M, addr, val)
           r == onWrite(M1.mmu.subscribers[addr], M1, addr, val)
           M2 == [r.m EXCEPT !.calls = Append(@, [addr |-> addr, val |-> val,
                                                  seen |-> at(M1, addr), ret |-> r.ret])]
       IN M2
  ELSE setNoNotify(M, addr, val)

set(M, addr, val) ==
  IF addr \in DOMAIN M.mmu.subscribers
  THEN LET r == onWrite(M.mmu.subscribers[addr], M, addr, val)
           M1 == [r.m EXCEPT !.calls = Append(@, [addr |-> addr, val |-> val,
                                                  seen |-> at(M, addr), ret |-> r.ret])]
       IN IF M1.panic # "" THEN M1 ELSE setNoNotify(M1, addr, r.ret)
  ELSE setNoNotify(M, addr, val)

subscribeTo_replaces(M, addr, fn) ==
  [M EXCEPT !.mmu.subscribers =
     [a \in (DOMAIN @) \cup {addr} |-> IF a = addr THEN fn ELSE @[a]]]

subscribeTo(M, addr, fn) ==
  IF addr \in DOMAIN M.mmu.subscribers
  THEN [M EXCEPT !.panic = "attempt to have multiple subscribers to one address"]
  ELSE [M EXCEPT !.mmu.subscribers =
          [a \in (DOMAIN @) \cup {addr} |-> IF a = addr THEN fn ELSE @[a]]]

----------------------------------------------------------------------------
(* mmu.tick: the DMA engine                                                *)

\* One iteration of the loop of mmu.tick.
mmu_tick_cycle(M) ==
  IF M.mmu.dmaActive
  THEN LET lower == split16lower(M.mmu.dmaCursor)
           M1 == IF lower < 159
                 THEN [setNoNotify(M, oamRAMAddr + lower, at(M, M.mmu.dmaCursor))
                         EXCEPT !.mmu.dmaCursor = U16(@ + 1)]
                 ELSE M
       IN IF M1.mmu.dmaCycleCount >= dmaCycleLength
          THEN [M1 EXCEPT !.mmu.dmaActive = FALSE]
          ELSE [M1 EXCEPT !.mmu.dmaCycleCount = @ + 1]
  ELSE M

\* for i := 0; i < opTime; i++ { ... }: the iterations i = 0 .. opTime-1 in
\* order, evaluated as the first half of them followed by the second half.
RECURSIVE mmu_tick_loop(_, _)
mmu_tick_loop(opTime, M) ==
  IF opTime <= 0 THEN M
  ELSE IF opTime = 1 THEN mmu_tick_cycle(M)
  ELSE LET half == opTime \div 2
           M1 == mmu_tick_loop(half, M)
       IN IF M1.panic # "" THEN M1 ELSE mmu_tick_loop(opTime - half, M1)

mmu_tick_oneCyclePerCall(M, opTime) ==
  IF opTime > 0 THEN mmu_tick_cycle(M) ELSE M

mmu_tick(M, opTime) == mmu_tick_loop(opTime, M)

----------------------------------------------------------------------------
(* The timer block (package gameboy)                                       *)

parseTAC(tac) ==
  LET speedBits == tac % 4
      rate == CASE speedBits = 0 -> 4096
                [] speedBits = 1 -> 262144
                [] speedBits = 2 -> 65536
                [] speedBits = 3 -> 16384
  IN [rate |-> rate, running |-> Bit(tac, 2) = 1]

\* The bit of cpuClock that feeds the TIMA for the given rate.
timaBit_swapsRates(cpuClock, timaRate) ==
  CASE timaRate = 4096 -> Bit(cpuClock, 7)
    [] timaRate = 16384 -> Bit(cpuClock, 9)
    [] timaRate = 65536 -> Bit(cpuClock, 5)
    [] timaRate = 262144 -> Bit(cpuClock, 3)

timaBit(cpuClock, timaRate) ==
  CASE timaRate = 4096 -> Bit(cpuClock, 9)
    [] timaRate = 16384 -> Bit(cpuClock, 7)
    [] timaRate = 65536 -> Bit(cpuClock, 5)
    [] timaRate = 262144 -> Bit(cpuClock, 3)

\* The body of "if t.tima == 0": reload from TMA, then flag the interrupt.
\* The overflow is recorded in M.tlog.ovf together with the bytes read.
timaOverflow_reloadOnlyWithInterrupt(M) ==
  LET timaInterruptEnabled == Bit(at(M, ieAddr), 2) = 1
      flag == M.interruptsEnabled /\ timaInterruptEnabled
      M1 == IF flag
            THEN [setNoNotify(M, ifAddr, OrBit(at(M, ifAddr), 2))
                    EXCEPT !.timers.tima = at(M, tmaAddr)]
            ELSE M
  IN [M1 EXCEPT !.tlog.ovf = Append(@, [tma |-> at(M, tmaAddr),
                                        ie |-> at(M, ieAddr),
                                        ime |-> M.interruptsEnabled,
                                        ifBefore |-> at(M, ifAddr),
                                        ifAfter |-> at(M1, ifAddr),
                                        timaAfter |-> M1.timers.tima])]

timaOverflow(M) ==
  LET M1 == [M EXCEPT !.timers.tima = at(M, tmaAddr)]
      timaInterruptEnabled == Bit(at(M1, ieAddr), 2) = 1
      M2 == IF M1.interruptsEnabled /\ timaInterruptEnabled
            THEN setNoNotify(M1, ifAddr, OrBit(at(M1, ifAddr), 2))
            ELSE M1
  IN [M2 EXCEPT !.tlog.ovf = Append(@, [tma |-> at(M, tmaAddr),
                                        ie |-> at(M, ieAddr),
                                        ime |-> M.interruptsEnabled,
                                        ifBefore |-> at(M, ifAddr),
                                        ifAfter |-> at(M2, ifAddr),
                                        timaAfter |-> M2.timers.tima])]

\* One iteration of the loop of timers.tick; M.tlog.incs counts the TIMA
\* increments of the call.
timers_tick_cycle(M, timaRate, timaRunning) ==
  LET cpuClock == U16(M.timers.cpuClock + 1)
      timaBitAndEnabled ==
        IF timaBit(cpuClock, timaRate) = 1 /\ timaRunning THEN 1 ELSE 0
      timaShouldIncrement == timaBitAndEnabled # 1 /\ M.timers.timaDelay = 1
      M1 == [M EXCEPT !.timers.cpuClock = cpuClock]
      M2 == IF timaShouldIncrement
            THEN LET M3 == [M1 EXCEPT !.timers.tima = U8(@ + 1),
                                      !.tlog.incs = @ + 1]
                 IN IF M3.timers.tima = 0 THEN timaOverflow(M3) ELSE M3
            ELSE M1
  IN [M2 EXCEPT !.timers.timaDelay = timaBitAndEnabled]

\* for i := 0; i < amount; i++ { ... }, split as in mmu_tick_loop.
RECURSIVE timers_tick_loop(_, _, _, _)
timers_tick_loop(amount, M, timaRate, timaRunning) ==
  IF amount <= 0 THEN M
  ELSE IF amount = 1 THEN timers_tick_cycle(M, timaRate, timaRunning)
  ELSE LET half == amount \div 2
           M1 == timers_tick_loop(half, M, timaRate, timaRunning)
       IN IF M1.panic # "" THEN M1
          ELSE timers_tick_loop(amount - half, M1, timaRate, timaRunning)

timers_tick_dividerLowByte(M, amount) ==
  LET tac == parseTAC(at(M, tacAddr))
      M1 == timers_tick_loop(amount, M, tac.rate, tac.running)
      M2 == setNoNotify(M1, dividerAddr, U8(M1.timers.cpuClock))
  IN setNoNotify(M2, timaAddr, M2.timers.tima)

timers_tick(M, amount) ==
  LET tac == parseTAC(at(M, tacAddr))
      M1 == timers_tick_loop(amount, M, tac.rate, tac.running)
      M2 == setNoNotify(M1, dividerAddr, U8(M1.timers.cpuClock \div 256))
  IN setNoNotify(M2, timaAddr, M2.timers.tima)

----------------------------------------------------------------------------
(* The video controller (src/unnamed/part_001)                             *)

\* Registers and tables of the display (spec.md section 6).
lcdcAddr == 65344
statAddr == 65345
scrollYAddr == 65346
scrollXAddr == 65347
lyAddr == 65348
bgpAddr == 65351
tileMap0 == 38912
tileMap1 == 39936
tileDataTable0 == 36864
tileDataTable1 == 32768

screenWidth == 160
screenHeight == 144
scanLineOAMClocks == 80
scanLineVRAMClocks == 172
horizontalBlankClocks == 204
scanLineFullClocks == scanLineOAMClocks + scanLineVRAMClocks + horizontalBlankClocks
verticalBlankClocks == 4560
fullFrameClocks == (scanLineFullClocks * screenHeight) + verticalBlankClocks

tileBytes == 16
bgTileWidth == 8
bgTileHeight == 8
bgWidthInTiles == 32
bgHeightInTiles == 32
bgWidth == bgWidthInTiles * bgTileWidth
bgHeight == 32 * bgTileHeight

\* const ( vcMode0 vcMode = 0; vcMode1; vcMode2; vcMode3 ): a constant
\* declared without an expression repeats the expression of the one before
\* it, and the declaration does not use iota.
vcMode0 == 0
vcMode1 == vcMode0
vcMode2 == vcMode1
vcMode3 == vcMode2

\* asSigned(b): the byte read as a two's complement int8.
asSigned(b) == IF b >= 128 THEN b - 256 ELSE b

\* The zero value of lcdcConfig.
ZeroLCDC ==
  [lcdOn |-> FALSE, windowTileMapAddr |-> 0, windowOn |-> FALSE,
   windowBGTileDataTableAddr |-> 0, bgTileMapAddr |-> 0, spriteSize |-> "",
   spritesOn |-> FALSE, windowBGOn |-> FALSE]

loadLCDC(M) ==
  LET lcdc == at(M, lcdcAddr)
  IN [lcdOn |-> Bit(lcdc, 7) = 1,
      windowTileMapAddr |-> IF Bit(lcdc, 6) = 1 THEN tileMap1 ELSE tileMap0,
      windowOn |-> Bit(lcdc, 5) = 1,
      windowBGTileDataTableAddr |->
        IF Bit(lcdc, 4) = 1 THEN tileDataTable1 ELSE tileDataTable0,
      bgTileMapAddr |-> IF Bit(lcdc, 3) = 1 THEN tileMap1 ELSE tileMap0,
      spriteSize |-> IF Bit(lcdc, 2) = 1 THEN "8x16" ELSE "8x8",
      spritesOn |-> Bit(lcdc, 1) = 1,
      windowBGOn |-> Bit(lcdc, 0) = 1]

\* The colour a two-bit selector of BGP stands for.
colorOf(colorType) ==
  CASE colorType = 0 -> <<0, 0, 0, 255>>
    [] colorType = 1 -> <<98, 78, 80, 255>>
    [] colorType = 2 -> <<219, 179, 180, 255>>
    [] colorType = 3 -> <<255, 255, 255, 255>>

\* bgp is shifted left by two after every entry, so entry dotData is made
\* from the bits that then stand at 7..6.
loadBGPalette(M) ==
  LET bgp == at(M, bgpAddr)
  IN [dotData \in 0..3 |->
        colorOf((U8(bgp * Pow2(2 * dotData)) \div 64) % 4)]

\* *statReg &= 0xFC; *statReg |= uint8(mode), on the byte mmu.pointerTo
\* hands out: the cell of the I/O area itself, no observer involved.
\* M.vlog.statKept records that bits 2..7 came through unchanged.
setMode(M, mode) ==
  LET old == Get(M.mmu.ioRAM, statAddr - ioAddr)
      new == ((old \div 4) * 4) + mode
  IN [M EXCEPT !.mmu.ioRAM = Put(@, statAddr - ioAddr, new),
               !.vlog.statKept = @ /\ (new \div 4 = old \div 4)]

\* bgTileAt(x, y): the tile ID under the screen point, and the point's
\* offset in the tile; tileOffset and tileAddr are returned as well.
bgTileAt(M, x, y) ==
  LET bgX0 == x + M.vc.scrollX
      bgX == IF bgX0 < 0 THEN bgX0 + bgWidth
             ELSE IF bgX0 > bgWidth THEN bgX0 - bgWidth ELSE bgX0
      bgY0 == y + M.vc.scrollY
      bgY == IF bgY0 < 0 THEN bgY0 + bgHeight
             ELSE IF bgY0 > bgHeight THEN bgY0 - bgHeight ELSE bgY0
      tileOffset == ((bgY \div bgTileHeight) * bgWidthInTiles) + (bgX \div bgTileWidth)
      tileAddr == U16(M.vc.lcdc.bgTileMapAddr + U16(tileOffset))
  IN [tileID |-> at(M, tileAddr), tileX |-> bgX % bgTileWidth,
      tileY |-> bgY % bgTileHeight, bgX |-> bgX, bgY |-> bgY,
      tileOffset |-> tileOffset, tileAddr |-> tileAddr]

\* The address of the data of a tile in the table vc.lcdc selects; -1
\* stands for the panic on an unknown table.
tileDataAddrOf(M, tile) ==
  CASE M.vc.lcdc.windowBGTileDataTableAddr = tileDataTable0 ->
         U16(tileDataTable0 + (asSigned(tile) * tileBytes))
    [] M.vc.lcdc.windowBGTileDataTableAddr = tileDataTable1 ->
         U16(tileDataTable1 + U16(tile * tileBytes))
    [] OTHER -> -1

\* The dot code loadTile stores at tileData[(y*bgTileHeight)+x]: when the
\* inner loop reaches x both bytes have been shifted left x times, so the
\* bits taken at 0x80 are bits 7-x of the bytes read.
dotCodeOf_lowerBitOnTop(lower, upper, x) ==
  LET lowerBit == (U8(lower * Pow2(x)) \div 128) % 2
      upperBit == (U8(upper * Pow2(x)) \div 128) % 2
  IN (lowerBit * 2) + upperBit

dotCodeOf(lower, upper, x) ==
  LET lowerBit == (U8(lower * Pow2(x)) \div 128) % 2
      upperBit == (U8(upper * Pow2(x)) \div 128) % 2
  IN (upperBit * 2) + lowerBit

\* loadTile(tile): the 64 dot codes, tileData[k] at index k+1.
loadTile(M, tile) ==
  LET tileDataAddr == tileDataAddrOf(M, tile)
  IN [k \in 1..(bgTileWidth * bgTileHeight) |->
        LET y == (k - 1) \div bgTileHeight
            x == (k - 1) % bgTileHeight
            lower == at(M, U16(tileDataAddr + (y * 2)))
            upper == at(M, U16(tileDataAddr + ((y * 2) + 1)))
        IN dotCodeOf(lower, upper, x)]

\* loadBGTiles: the map holds loadTile(i) for every tile ID i.  Every byte
\* loadTile reads lies in video RAM, so the map is kept as the video RAM
\* and the table it was decoded from, and an entry is decoded on lookup.
loadBGTiles(M) ==
  IF tileDataAddrOf(M, 0) < 0
  THEN [M EXCEPT !.panic = "unknown tile data table"]
  ELSE [M EXCEPT !.vc.tiles =
          [loaded |-> TRUE,
           table |-> M.vc.lcdc.windowBGTileDataTableAddr,
           videoRAM |-> M.mmu.videoRAM]]

\* vc.tiles[tileID]
tilesAt(M, tileID) ==
  loadTile([M EXCEPT !.mmu.videoRAM = M.vc.tiles.videoRAM,
                     !.vc.lcdc.windowBGTileDataTableAddr = M.vc.tiles.table],
           tileID)

\* The colour drawScanLine gives the point (x, line).
dotAt(M, x, line) ==
  LET t == bgTileAt(M, x, line)
      tileData == tilesAt(M, t.tileID)
      dotCode == tileData[((t.tileY * bgTileHeight) + t.tileX) + 1]
  IN M.vc.bgPalette[dotCode]

\* drawScanLine(line): the 160 points of the line go to the renderer; the
\* call is recorded in M.vlog.draws with the frameTick it was made at.
drawScanLine(M, line) ==
  IF ~M.vc.tiles.loaded
  THEN [M EXCEPT !.panic = "invalid tile ID"]
  ELSE [M EXCEPT !.vlog.draws =
          Append(@, [line |-> line, tick |-> M.vc.frameTick, lap |-> M.vlog.laps])]

\* The record of one call of videoController.tick: the modes entered, the
\* scan lines drawn and the VBlank interrupts requested, each with the
\* frameTick of the cycle, the calls of renderer.Clear and renderer.Present,
\* and the number of times frameTick wrapped.
EmptyVideoLog ==
  [modes |-> <<>>, draws |-> <<>>, vblank |-> <<>>, clears |-> 0,
   presents |-> 0, laps |-> 0, statKept |-> TRUE]

\* M.vc.mode is the mode of the branch of tick that ran last, by the
\* number the comments of the branches give it ("We're in mode 2, ...");
\* a change of it is recorded in M.vlog.modes.
inMode(M, k) ==
  IF M.vc.mode = k THEN M
  ELSE [M EXCEPT !.vc.mode = k,
                 !.vlog.modes = Append(@, [mode |-> k, tick |-> M.vc.frameTick,
                                           lap |-> M.vlog.laps])]

\* The branch "if vc.frameTick == scanLineFullClocks*screenHeight".
frameDone_ignoresMasterFlag(M) ==
  LET vblankInterruptEnabled == Bit(at(M, ieAddr), 0) = 1
      M1 == IF vblankInterruptEnabled
            THEN [set(M, ifAddr, OrBit(at(M, ifAddr), 0))
                    EXCEPT !.vlog.vblank = Append(@, [tick |-> M.vc.frameTick,
                                                      ifBefore |-> at(M, ifAddr)])]
            ELSE M
  IN IF M1.panic # "" THEN M1 ELSE [M1 EXCEPT !.vlog.presents = @ + 1]

frameDone(M) ==
  LET vblankInterruptEnabled == Bit(at(M, ieAddr), 0) = 1
      M1 == IF M.interruptsEnabled /\ vblankInterruptEnabled
            THEN [set(M, ifAddr, OrBit(at(M, ifAddr), 0))
                    EXCEPT !.vlog.vblank = Append(@, [tick |-> M.vc.frameTick,
                                                      ifBefore |-> at(M, ifAddr)])]
            ELSE M
  IN IF M1.panic # "" THEN M1 ELSE [M1 EXCEPT !.vlog.presents = @ + 1]

\* One iteration of the loop of videoController.tick.
video_tick_cycle(M) ==
  LET frameTick == M.vc.frameTick
      M1 == IF frameTick = 0
            THEN [M EXCEPT !.vlog.clears = @ + 1,
                           !.vc.lcdc = loadLCDC(M),
                           !.vc.scrollY = asSigned(at(M, scrollYAddr))]
            ELSE M
      currScanLine == frameTick \div scanLineFullClocks
      M2 == set(M1, lyAddr, U8(currScanLine))
      scanLineProgress == frameTick % scanLineFullClocks
      M3 == IF M2.panic # "" THEN M2
            ELSE IF frameTick < scanLineFullClocks * screenHeight
            THEN CASE scanLineProgress = 0 ->
                        [setMode(inMode(M2, 2), vcMode2)
                           EXCEPT !.vc.scrollX = asSigned(at(M2, scrollXAddr)),
                                  !.vc.bgPalette = loadBGPalette(M2)]
                   [] scanLineProgress = scanLineOAMClocks ->
                        loadBGTiles(setMode(inMode(M2, 3), vcMode3))
                   [] scanLineProgress = scanLineVRAMClocks ->
                        drawScanLine(setMode(inMode(M2, 0), vcMode0), currScanLine)
                   [] OTHER -> M2
            ELSE LET M4 == setMode(inMode(M2, 1), vcMode1)
                 IN IF frameTick = scanLineFullClocks * screenHeight
                    THEN frameDone(M4)
                    ELSE M4
  IN IF M3.panic # "" THEN M3
     ELSE IF frameTick + 1 = fullFrameClocks
     THEN [M3 EXCEPT !.vc.frameTick = 0, !.vlog.laps = @ + 1]
     ELSE [M3 EXCEPT !.vc.frameTick = frameTick + 1]

\* for i := 0; i < opTime; i++ { ... }, split as in mmu_tick_loop.
RECURSIVE video_tick_loop(_, _)
video_tick_loop(opTime, M) ==
  IF opTime <= 0 THEN M
  ELSE IF opTime = 1 THEN video_tick_cycle(M)
  ELSE LET half == opTime \div 2
           M1 == video_tick_loop(half, M)
       IN IF M1.panic # "" THEN M1 ELSE video_tick_loop(opTime - half, M1)

videoController_tick_ignoresLcdOn(M, opTime) == video_tick_loop(opTime, M)

videoController_tick(M, opTime) ==
  IF ~loadLCDC(M).lcdOn THEN M ELSE video_tick_loop(opTime, M)

----------------------------------------------------------------------------
(* Construction                                                            *)

EmptyLog == [incs |-> 0, ovf |-> <<>>]

\* The registers, flags and interrupt countdowns of the environment, all
\* at their zero values.
newCPU ==
  [regs |-> [r \in {"A", "B", "C", "D", "E", "H", "L"} |-> 0],
   flags |-> [zero |-> FALSE, subtract |-> FALSE, halfCarry |-> FALSE,
              carry |-> FALSE],
   disableInterruptsTimer |-> 0,
   enableInterruptsTimer |-> 0]

\* newMMU(cartridgeData, mbc); the master interrupt flag is the caller's.
newMMU(ime) ==
  subscribeTo(
    [mmu |-> [videoRAM |-> Zeroed, oamRAM |-> Zeroed, ioRAM |-> Zeroed,
              hram |-> Zeroed, dmaActive |-> FALSE, dmaCursor |-> 0,
              dmaCycleCount |-> 0, subscribers |-> [a \in {} |-> ""]],
     mbc |-> [ram |-> Zeroed],
     timers |-> [cpuClock |-> 0, tima |-> 0, timaDelay |-> 0],
     cpu |-> newCPU,
     interruptsEnabled |-> ime,
     panic |-> "",
     calls |-> <<>>,
     tlog |-> EmptyLog],
    dmaAddr, "onDMAWrite")

\* newTimers(state)
newTimers(M) ==
  timers_tick(subscribeTo(subscribeTo(M, dividerAddr, "onDividerWrite"),
                          tacAddr, "onTACWrite"),
              8)

\* newVideoController(env, timers): every field of the controller at its
\* zero value; vc.tiles and vc.bgPalette are nil maps.
newVideoController(M) ==
  [mmu |-> M.mmu, mbc |-> M.mbc, timers |-> M.timers, cpu |-> M.cpu,
   interruptsEnabled |-> M.interruptsEnabled, panic |-> M.panic,
   calls |-> M.calls, tlog |-> M.tlog,
   vc |-> [frameTick |-> 0, lcdc |-> ZeroLCDC,
           tiles |-> [loaded |-> FALSE, table |-> 0, videoRAM |-> Zeroed],
           scrollX |-> 0, scrollY |-> 0, bgPalette |-> <<>>, mode |-> -1],
   vlog |-> EmptyVideoLog]

Constructed(ime) == newVideoController(newTimers(newMMU(ime)))

----------------------------------------------------------------------------
(* The state machine                                                       *)

\* The machine at the start of an operation; the per-operation records of
\* observer calls and timer events start empty.
Machine ==
  [mmu |-> mmu, mbc |-> mbc, timers |-> timers, cpu |-> cpu,
   interruptsEnabled |-> interruptsEnabled, panic |-> panic,
   calls |-> <<>>, tlog |-> EmptyLog, vc |-> vc, vlog |-> EmptyVideoLog]

\* The machine as it stands, with the records of the last operation.
Current == [Machine EXCEPT !.calls = calls, !.tlog = tlog, !.vlog = vlog]

Commit(M) ==
  /\ mmu' = M.mmu
  /\ mbc' = M.mbc
  /\ timers' = M.timers
  /\ interruptsEnabled' = M.interruptsEnabled
  /\ panic' = M.panic
  /\ calls' = M.calls
  /\ tlog' = M.tlog
  /\ vc' = M.vc
  /\ vlog' = M.vlog
  /\ cpu' = M.cpu

NoOp ==
  [op |-> "new", addr |-> 0, val |-> 0, n |-> 0, old |-> 0, clock0 |-> 0,
   dma0 |-> FALSE, frameTick0 |-> 0, lcdOn0 |-> FALSE, if0 |-> 0,
   delay0 |-> 0, out |-> <<>>]

NoDma == [v |-> -1, cycles |-> 0, clean |-> FALSE]

\* The state in which the machine M has just been built.
Start(M) ==
  /\ mmu = M.mmu
  /\ mbc = M.mbc
  /\ timers = M.timers
  /\ interruptsEnabled = M.interruptsEnabled
  /\ panic = M.panic
  /\ calls = <<>>
  /\ tlog = EmptyLog
  /\ vc = M.vc
  /\ vlog = EmptyVideoLog
  /\ cpu = M.cpu
  /\ last = NoOp
  /\ dmaTrack = NoDma
  /\ nOps = 0

\* The CPU writes w[2] to w[1] through mmu.set.  dmaTrack follows the
\* transfer started by the last accepted write to the DMA register.
CpuSet(W, max) ==
  /\ panic = ""
  /\ nOps < max
  /\ \E w \in W :
       /\ Commit(set(Machine, w[1], w[2]))
       /\ last' = [op |-> "set", addr |-> w[1], val |-> w[2], n |-> 0,
                   old |-> at(Machine, w[1]), clock0 |-> timers.cpuClock,
                   dma0 |-> mmu.dmaActive, frameTick0 |-> vc.frameTick,
                   lcdOn0 |-> loadLCDC(Machine).lcdOn,
                   if0 |-> at(Machine, ifAddr),
                   delay0 |-> timers.timaDelay, out |-> <<>>]
       /\ dmaTrack' = IF w[1] = dmaAddr /\ ~mmu.dmaActive
                      THEN [v |-> w[2], cycles |-> 0, clean |-> TRUE]
                      ELSE [dmaTrack EXCEPT !.clean = FALSE]
  /\ nOps' = nOps + 1

\* A hardware-side store through mmu.setNoNotify.
HwSetNoNotify(W, max) ==
  /\ panic = ""
  /\ nOps < max
  /\ \E w \in W :
       /\ Commit(setNoNotify(Machine, w[1], w[2]))
       /\ last' = [op |-> "setNoNotify", addr |-> w[1], val |-> w[2], n |-> 0,
                   old |-> at(Machine, w[1]), clock0 |-> timers.cpuClock,
                   dma0 |-> mmu.dmaActive, frameTick0 |-> vc.frameTick,
                   lcdOn0 |-> loadLCDC(Machine).lcdOn,
                   if0 |-> at(Machine, ifAddr),
                   delay0 |-> timers.timaDelay, out |-> <<>>]
  /\ dmaTrack' = [dmaTrack EXCEPT !.clean = FALSE]
  /\ nOps' = nOps + 1

MmuTick(N, max) ==
  /\ panic = ""
  /\ nOps < max
  /\ \E n \in N :
       /\ Commit(mmu_tick(Machine, n))
       /\ last' = [op |-> "mmu.tick", addr |-> 0, val |-> 0, n |-> n,
                   old |-> 0, clock0 |-> timers.cpuClock,
                   dma0 |-> mmu.dmaActive, frameTick0 |-> vc.frameTick,
                   lcdOn0 |-> loadLCDC(Machine).lcdOn,
                   if0 |-> at(Machine, ifAddr),
                   delay0 |-> timers.timaDelay, out |-> <<>>]
       /\ dmaTrack' = [dmaTrack EXCEPT !.cycles = @ + n]
  /\ nOps' = nOps + 1

TimersTick(N, max) ==
  /\ panic = ""
  /\ nOps < max
  /\ \E n \in N :
       /\ Commit(timers_tick(Machine, n))
       /\ last' = [op |-> "timers.tick", addr |-> 0, val |-> 0, n |-> n,
                   old |-> 0, clock0 |-> timers.cpuClock,
                   dma0 |-> mmu.dmaActive, frameTick0 |-> vc.frameTick,
                   lcdOn0 |-> loadLCDC(Machine).lcdOn,
                   if0 |-> at(Machine, ifAddr),
                   delay0 |-> timers.timaDelay, out |-> <<>>]
  /\ dmaTrack' = [dmaTrack EXCEPT !.clean = FALSE]
  /\ nOps' = nOps + 1

VideoTick(N, max) ==
  /\ panic = ""
  /\ nOps < max
  /\ \E n \in N :
       /\ Commit(videoController_tick(Machine, n))
       /\ last' = [op |-> "videoController.tick", addr |-> 0, val |-> 0,
                   n |-> n, old |-> 0, clock0 |-> timers.cpuClock,
                   dma0 |-> mmu.dmaActive, frameTick0 |-> vc.frameTick,
                   lcdOn0 |-> loadLCDC(Machine).lcdOn,
                   if0 |-> at(Machine, ifAddr),
                   delay0 |-> timers.timaDelay, out |-> <<>>]
  /\ dmaTrack' = [dmaTrack EXCEPT !.clean = FALSE]
  /\ nOps' = nOps + 1

\* A call of bgTileAt(x, y) or of loadTile(tile) on the controller as it
\* stands; last.out is what the call returned.
Returned(op, a, b, out) ==
  [NoOp EXCEPT !.op = op, !.addr = a, !.val = b, !.out = out]

BgTileAt(X, Y, max) ==
  /\ panic = ""
  /\ nOps < max
  /\ \E x \in X, y \in Y :
       last' = Returned("bgTileAt", x, y, bgTileAt(Machine, x, y))
  /\ nOps' = nOps + 1
  /\ UNCHANGED <<mmu, mbc, timers, vc, cpu, interruptsEnabled, panic, calls,
                 tlog, vlog, dmaTrack>>

LoadTile(T, max) ==
  /\ panic = ""
  /\ nOps < max
  /\ \E tile \in T :
       last' = Returned("loadTile", tile, 0, loadTile(Machine, tile))
  /\ nOps' = nOps + 1
  /\ UNCHANGED <<mmu, mbc, timers, vc, cpu, interruptsEnabled, panic, calls,
                 tlog, vlog, dmaTrack>>

\* tick(a) followed at once by tick(b) on one subsystem.  last.out is the
\* machine that the single call tick(a + b) makes of the same start.
Split(op, a, b, one) ==
  [NoOp EXCEPT !.op = op, !.addr = a, !.val = b, !.n = a + b,
               !.clock0 = timers.cpuClock, !.dma0 = mmu.dmaActive,
               !.frameTick0 = vc.frameTick,
               !.lcdOn0 = loadLCDC(Machine).lcdOn,
               !.if0 = at(Machine, ifAddr),
               !.delay0 = timers.timaDelay, !.out = one]

TimersTickTwice(P, max) ==
  /\ panic = ""
  /\ nOps < max
  /\ \E p \in P :
       /\ Commit(timers_tick(timers_tick(Machine, p[1]), p[2]))
       /\ last' = Split("timers.tick twice", p[1], p[2],
                        timers_tick(Machine, p[1] + p[2]))
  /\ dmaTrack' = [dmaTrack EXCEPT !.clean = FALSE]
  /\ nOps' = nOps + 1

MmuTickTwice(P, max) ==
  /\ panic = ""
  /\ nOps < max
  /\ \E p \in P :
       /\ Commit(mmu_tick(mmu_tick(Machine, p[1]), p[2]))
       /\ last' = Split("mmu.tick twice", p[1], p[2],
                        mmu_tick(Machine, p[1] + p[2]))
       /\ dmaTrack' = [dmaTrack EXCEPT !.cycles = @ + p[1] + p[2]]
  /\ nOps' = nOps + 1

VideoTickTwice(P, max) ==
  /\ panic = ""
  /\ nOps < max
  /\ \E p \in P :
       /\ Commit(videoController_tick(videoController_tick(Machine, p[1]), p[2]))
       /\ last' = Split("videoController.tick twice", p[1], p[2],
                        videoController_tick(Machine, p[1] + p[2]))
  /\ dmaTrack' = [dmaTrack EXCEPT !.clean = FALSE]
  /\ nOps' = nOps + 1

\* mmu.subscribeTo(addr, fn); last.out is the function handed in.
SubscribeTo(S, max) ==
  /\ panic = ""
  /\ nOps < max
  /\ \E sub \in S :
       /\ Commit(subscribeTo(Machine, sub[1], sub[2]))
       /\ last' = [NoOp EXCEPT !.op = "subscribeTo", !.addr = sub[1],
                               !.out = sub[2]]
  /\ dmaTrack' = [dmaTrack EXCEPT !.clean = FALSE]
  /\ nOps' = nOps + 1

----------------------------------------------------------------------------
(* SpecBus: CPU and hardware stores to every region of the address space.  *)

BusAddrs ==
  {0, 32767, 32768, 40960, 49152, 56831, 56832, 57344, 65023, 65024, 65184,
   dividerAddr, tacAddr, ifAddr, dmaAddr, hramAddr, ieAddr}

BusVals == {90, 255}

HwAddrs == {dividerAddr, tacAddr, dmaAddr, 32768, 65024}

InitBus == \E ime \in BOOLEAN : Start(Constructed(ime))

NextBus ==
  \/ CpuSet(BusAddrs \X BusVals, MaxBusOps)
  \/ HwSetNoNotify(HwAddrs \X BusVals, MaxBusOps)

SpecBus == InitBus /\ [][NextBus]_vars

----------------------------------------------------------------------------
(* SpecDMA: DMA requests, stores to the source area, and mmu.tick.         *)

DmaWrites == {<<dmaAddr, 1>>, <<dmaAddr, 193>>, <<49408, 7>>, <<49567, 9>>}

DmaTicks == {1, 70, 600, 671}

InitDMA == \E ime \in BOOLEAN : Start(Constructed(ime))

NextDMA ==
  \/ CpuSet(DmaWrites, MaxDmaOps)
  \/ MmuTick(DmaTicks, MaxDmaOps)

SpecDMA == InitDMA /\ [][NextDMA]_vars

----------------------------------------------------------------------------
(* Claims about the DMA engine, checked under SpecDMA                      *)

\* A transfer requested by a CPU write of dmaTrack.v has been followed by
\* mmu.tick calls only, totalling the given number of cycles.
DmaRanFor(cycles) ==
  dmaTrack.v >= 0 /\ dmaTrack.clean /\ dmaTrack.cycles = cycles

DmaSource == U16(dmaTrack.v * 256)

\* C1: once 671 cycles have been ticked after a write of V to 0xFF46, with
\* no other write in between, OAM byte 0xFE00+i equals the byte read at
\* (V<<8)+i for every i in 0..0x9F.
C1_DmaCopiesAll160Bytes ==
  DmaRanFor(dmaCycleLength) =>
    \A i \in 0..159 :
      at(Current, oamRAMAddr + i) = at(Current, U16(DmaSource + i))

\* C2: after a write to 0xFF46 the DMA engine is active while fewer than
\* 671 cycles have been ticked and inactive once 671 cycles have been
\* ticked, however the cycles are split across calls.
C2_DmaActiveForExactly671Cycles ==
  (dmaTrack.v >= 0 /\ dmaTrack.clean) =>
    (mmu.dmaActive <=> dmaTrack.cycles < dmaCycleLength)

\* C20: a write of V to 0xFF46 while a transfer is active does not fail; it
\* restarts the transfer: dmaCursor = V<<8, dmaCycleCount = 0, dmaActive
\* still true.
C20_DmaWriteWhileActiveRestarts ==
  (last.op = "set" /\ last.addr = dmaAddr /\ last.dma0) =>
    /\ panic = ""
    /\ mmu.dmaActive
    /\ mmu.dmaCursor = U16(last.val * 256)
    /\ mmu.dmaCycleCount = 0

\* C26: in every reachable state in which the DMA engine is inactive, also
\* after a transfer has run to completion, dmaCursor is 0 and
\* dmaCycleCount is 0.
C26_InactiveDmaIsZeroed ==
  ~mmu.dmaActive => (mmu.dmaCursor = 0 /\ mmu.dmaCycleCount = 0)

----------------------------------------------------------------------------
(* Claims about the bus, checked under SpecBus                             *)

\* The bytes the observers returned during the last operation.
ObserverReturns == {calls[k].ret : k \in 1..Len(calls)}

\* The regions whose bytes the MMU itself stores.
inOwnedArea(addr) ==
  inVideoRAMArea(addr) \/ inOAMArea(addr) \/ inIOArea(addr) \/ inHRAMArea(addr)

ObserverValue(addr, val) ==
  CASE addr = dividerAddr -> 0
    [] addr = tacAddr -> 248 + (val % 8)
    [] addr = dmaAddr -> val

\* C4: mmu.set on an address with an observer invokes the observer exactly
\* once with (addr, val) while the destination still holds its old byte, and
\* when set returns the destination holds the observer's return value;
\* mmu.setNoNotify invokes no observer and stores val itself.
C4_ObserverProtocol ==
  /\ (last.op = "set" /\ last.addr \in DOMAIN mmu.subscribers) =>
       /\ Len(calls) = 1
       /\ calls[1].addr = last.addr
       /\ calls[1].val = last.val
       /\ calls[1].seen = last.old
       /\ calls[1].ret = ObserverValue(last.addr, last.val)
       /\ panic = "" => at(Current, last.addr) = calls[1].ret
  /\ (last.op = "set" /\ last.addr \notin DOMAIN mmu.subscribers) =>
       calls = <<>>
  /\ last.op = "setNoNotify" =>
       /\ calls = <<>>
       /\ inOwnedArea(last.addr) => at(Current, last.addr) = last.val

C4_Witness ==
  /\ last.op = "set" /\ last.addr = tacAddr
  /\ last.old = 255 /\ last.val = 90
  /\ Len(calls) = 1 /\ calls[1].seen = 255
  /\ at(Current, tacAddr) = 250

\* Echo addresses probed in every state: the first and the last byte of each
\* 256-byte page of [0xE000, 0xFE00).
EchoProbe == {ramMirrorAddr + 256 * k + o : k \in 0..29, o \in {0, 255}}

\* C5: every echo address a reads the same byte as a - 0x2000; a write to
\* the echo is read back at a - 0x2000 and a write to a - 0x2000 is read
\* back at a.
C5_EchoMirrorsWorkRAM ==
  /\ \A a \in EchoProbe \cup {last.addr} :
       inRAMMirrorArea(a) => at(Current, a) = at(Current, a - 8192)
  /\ (last.op \in {"set", "setNoNotify"} /\ inRAMMirrorArea(last.addr)) =>
       at(Current, last.addr - 8192) = last.val
  /\ (last.op \in {"set", "setNoNotify"} /\ inRAMMirrorArea(last.addr + 8192)) =>
       at(Current, last.addr + 8192) = last.val

C5_Witness ==
  /\ last.op = "set" /\ last.addr = 65023 /\ last.val = 90
  /\ at(Current, 56831) = 90
  /\ at(Current, ramMirrorAddr) = 255
  /\ at(Current, ramAddr) = 255

----------------------------------------------------------------------------
(* SpecTimers: CPU writes to the timer and interrupt registers, and        *)
(* timers.tick.  The machine starts as constructed, or as constructed and  *)
(* then run by the operations of the program up to a later moment.         *)

\* Forget the records of the operations that led to M.
Settled(M) ==
  [M EXCEPT !.calls = <<>>, !.tlog = EmptyLog, !.vlog = EmptyVideoLog]

\* TAC set to 5 and 4072 cycles ticked: the TIMA has counted up to 0xFF.
TimaAboutToOverflow(ime) ==
  Settled(timers_tick(set(Constructed(ime), tacAddr, 5), 4072))

\* 65527 cycles ticked: the 16-bit clock holds 0xFFFF.
ClockAboutToWrap(ime) == Settled(timers_tick(Constructed(ime), 65527))

TimerWrites ==
  {<<dividerAddr, 85>>, <<timaAddr, 66>>, <<tmaAddr, 66>>, <<tacAddr, 5>>,
   <<tacAddr, 0>>, <<ieAddr, 4>>, <<ieAddr, 27>>, <<ifAddr, 27>>}

TimerTicks == {0, 1, 16, 256}

InitTimers ==
  \E ime \in BOOLEAN :
    \E M \in {Constructed(ime), TimaAboutToOverflow(ime), ClockAboutToWrap(ime)} :
      Start(M)

NextTimers ==
  \/ CpuSet(TimerWrites, MaxTimerOps)
  \/ TimersTick(TimerTicks, MaxTimerOps)

SpecTimers == InitTimers /\ [][NextTimers]_vars

----------------------------------------------------------------------------
(* SpecTAC: every byte written to the TAC register.                        *)

InitTAC == \E ime \in BOOLEAN : Start(Constructed(ime))

NextTAC ==
  \/ CpuSet({tacAddr} \X (0..255), MaxTacOps)
  \/ TimersTick({1, 16}, MaxTacOps)

SpecTAC == InitTAC /\ [][NextTAC]_vars

----------------------------------------------------------------------------
(* Claims about the timer block                                            *)

\* (sysClock >> 8) & 0xFF
DividerOf(cpuClock) == (cpuClock \div 256) % 256

\* C6: in every reachable state the byte at 0xFF04 is the high byte of the
\* timer's 16-bit clock and the byte at 0xFF05 is the timer's TIMA counter.
C6_TimerRegistersMatchInternalState ==
  /\ at(Current, dividerAddr) = DividerOf(timers.cpuClock)
  /\ at(Current, timaAddr) = timers.tima

\* C7: after every timers.tick(n) the clock has advanced by n modulo 2^16
\* and the byte at 0xFF04 is (sysClock >> 8) & 0xFF; from sysClock = 0,
\* tick(256) makes it 1.
C7_DividerAfterTick ==
  last.op = "timers.tick" =>
    /\ timers.cpuClock = U16(last.clock0 + last.n)
    /\ at(Current, dividerAddr) = DividerOf(U16(last.clock0 + last.n))
    /\ (last.clock0 = 0 /\ last.n = 256) => at(Current, dividerAddr) = 1

C7_Witness ==
  /\ last.op = "timers.tick" /\ last.clock0 = 0 /\ last.n = 256
  /\ timers.cpuClock = 256
  /\ at(Current, dividerAddr) = 1

\* C8: a CPU write of any value to 0xFF04 leaves the timer's clock at 0 and
\* the byte at 0xFF04 at 0.
C8_DividerWriteResets ==
  (last.op = "set" /\ last.addr = dividerAddr) =>
    /\ timers.cpuClock = 0
    /\ at(Current, dividerAddr) = 0

C8_Witness ==
  /\ last.op = "set" /\ last.addr = dividerAddr /\ last.val = 85
  /\ last.clock0 >= 256 /\ last.old > 0
  /\ timers.cpuClock = 0
  /\ at(Current, dividerAddr) = 0

\* C9: after a CPU write of v to 0xFF07 the byte read there is
\* 0xF8 | (v & 0x07) (0xFF for 0xFF, 0xF8 for 0x00, 0xFD for 0x05), and once
\* written the register keeps its upper five bits at 1.
C9_TACReadBack ==
  /\ (last.op = "set" /\ last.addr = tacAddr) =>
       /\ at(Current, tacAddr) = 248 + (last.val % 8)
       /\ last.val = 255 => at(Current, tacAddr) = 255
       /\ last.val = 0 => at(Current, tacAddr) = 248
       /\ last.val = 5 => at(Current, tacAddr) = 253
  /\ at(Current, tacAddr) = 0 \/ at(Current, tacAddr) \div 8 = 31

C9_Witness ==
  /\ last.op = "set" /\ last.addr = tacAddr /\ last.val = 5
  /\ last.old = 248
  /\ at(Current, tacAddr) = 253

\* C10: every TIMA wrap inside timers.tick reloads the TIMA from the byte
\* at 0xFF06 in that cycle, with interrupts enabled or not, and sets IF
\* bit 2 exactly when the master flag and IE bit 2 are set, keeping the
\* other IF bits; with TAC=0x05, TIMA=0xFF, TMA=0x42, IE bit 2, the master
\* flag and IF=0, one falling edge leaves TIMA=0x42 and IF bit 2 set.
C10_TimaOverflow ==
  /\ \A k \in 1..Len(tlog.ovf) :
       LET e == tlog.ovf[k]
       IN /\ e.timaAfter = e.tma
          /\ e.ifAfter = IF e.ime /\ Bit(e.ie, 2) = 1
                         THEN OrBit(e.ifBefore, 2)
                         ELSE e.ifBefore
  /\ ( /\ last.op = "timers.tick"
       /\ tlog.incs = 1 /\ Len(tlog.ovf) = 1
       /\ at(Current, tacAddr) % 8 = 5
       /\ tlog.ovf[1].tma = 66 ) =>
         /\ timers.tima = 66
         /\ at(Current, timaAddr) = 66
         /\ (tlog.ovf[1].ime /\ Bit(tlog.ovf[1].ie, 2) = 1 /\ tlog.ovf[1].ifBefore = 0)
              => at(Current, ifAddr) = 4
         /\ ~(tlog.ovf[1].ime /\ Bit(tlog.ovf[1].ie, 2) = 1)
              => at(Current, ifAddr) = tlog.ovf[1].ifBefore

C10_Witness ==
  /\ last.op = "timers.tick"
  /\ tlog.incs = 1 /\ Len(tlog.ovf) = 1
  /\ at(Current, tacAddr) = 253
  /\ tlog.ovf[1].tma = 66 /\ tlog.ovf[1].ime /\ tlog.ovf[1].ie = 4
  /\ tlog.ovf[1].ifBefore = 0
  /\ timers.tima = 66
  /\ at(Current, ifAddr) = 4

----------------------------------------------------------------------------
(* SpecVideo: the CPU switches the LCD on and off and writes STAT between  *)
(* calls of videoController.tick.  The machine starts freshly built, or    *)
(* with the LCD on at the start of the frame or of its last visible line.  *)

\* The machine after the CPU has written 0x91 to LCDC and the controller
\* has been ticked for n cycles.
VideoAt(ime, n) ==
  Settled(videoController_tick(set(Constructed(ime), lcdcAddr, 145), n))

LastVisibleLine == scanLineFullClocks * (screenHeight - 1)

VideoWrites == {<<lcdcAddr, 145>>, <<lcdcAddr, 17>>, <<statAddr, 72>>}

VideoTicks ==
  {1, scanLineOAMClocks, scanLineVRAMClocks - scanLineOAMClocks,
   scanLineFullClocks - scanLineVRAMClocks, scanLineFullClocks}

InitVideo ==
  \E ime \in BOOLEAN :
    \/ Start(Constructed(ime))
    \/ Start(VideoAt(ime, 0))
    \/ Start(VideoAt(ime, LastVisibleLine))

NextVideo ==
  \/ CpuSet(VideoWrites, MaxVideoOps)
  \/ VideoTick(VideoTicks, MaxVideoOps)

SpecVideo == InitVideo /\ [][NextVideo]_vars

----------------------------------------------------------------------------
(* Claims about the video controller, checked under SpecVideo              *)

LcdOn == loadLCDC(Current).lcdOn

\* C12: with the LCD on, after every call videoController.tick(n) returns,
\* LY (0xFF44) equals frameTick / 456 for the frameTick the controller
\* holds at that moment, and frameTick is in [0, 70224).
C12_LYFollowsFrameTick ==
  (last.op = "videoController.tick" /\ last.lcdOn0 /\ panic = "") =>
    /\ at(Current, lyAddr) = vc.frameTick \div scanLineFullClocks
    /\ vc.frameTick >= 0 /\ vc.frameTick < fullFrameClocks

\* Position in the scan line and scan line of a recorded frameTick.
PosOf(e) == e.tick % scanLineFullClocks
LineOf(e) == e.tick \div scanLineFullClocks

\* C13: with the LCD on, on every visible scan line the controller enters
\* mode 2 at position 0, mode 3 at position 80 and mode 0 at position 252,
\* where it emits the scan line, so that mode 2 lasts 80, mode 3 172 and
\* mode 0 204 cycles; a scan line is emitted exactly once per visible line.
C13_ScanLinePhases ==
  (last.op = "videoController.tick" /\ last.lcdOn0 /\ panic = "") =>
    /\ \A k \in 1..Len(vlog.modes) :
         LET e == vlog.modes[k]
         IN /\ e.mode = 2 => (PosOf(e) = 0 /\ LineOf(e) < screenHeight)
            /\ e.mode = 3 => (PosOf(e) = scanLineOAMClocks /\ LineOf(e) < screenHeight)
            /\ e.mode = 0 =>
                 /\ PosOf(e) = scanLineOAMClocks + scanLineVRAMClocks
                 /\ LineOf(e) < screenHeight
                 /\ scanLineFullClocks - PosOf(e) = horizontalBlankClocks
    /\ \A k \in 1..Len(vlog.draws) :
         LET d == vlog.draws[k]
         IN /\ PosOf(d) = scanLineOAMClocks + scanLineVRAMClocks
            /\ d.line = LineOf(d) /\ d.line < screenHeight
            /\ \A j \in 1..Len(vlog.draws) :
                 (j # k /\ vlog.draws[j].lap = d.lap) => vlog.draws[j].line # d.line
    /\ \A t \in last.frameTick0..(last.frameTick0 + last.n - 1) :
         (t < scanLineFullClocks * screenHeight
            /\ t % scanLineFullClocks = scanLineOAMClocks + scanLineVRAMClocks) =>
           \E k \in 1..Len(vlog.draws) : vlog.draws[k].tick = t

\* C14: while the LCD is on, the low two bits of STAT (0xFF41) equal the
\* number of the mode the scan line state machine is in (2 OAM scan, 3 VRAM
\* transfer, 0 HBlank, 1 VBlank), and setMode leaves bits 2..7 of STAT as
\* they were.
C14_StatShowsMode ==
  /\ (LcdOn /\ vc.mode >= 0 /\ panic = "") => at(Current, statAddr) % 4 = vc.mode
  /\ vlog.statKept

\* C15: if bit 7 of LCDC is 0 when videoController.tick(n) is called, the
\* call changes nothing: frameTick, LY, STAT, IF, the cached tiles, scroll
\* and palette stay as they were and nothing is drawn or presented.
C15_TickWithLcdOffIsNoOp ==
  [][(last'.op = "videoController.tick" /\ nOps' = nOps + 1
        /\ ~loadLCDC(Machine).lcdOn) =>
       /\ UNCHANGED <<mmu, mbc, timers, vc, cpu, interruptsEnabled, panic>>
       /\ vlog' = EmptyVideoLog
       /\ calls' = <<>>]_vars

\* The LCD was switched off in the middle of a frame, with cached tiles,
\* and the controller ticked after that.
C15_Witness ==
  /\ last.op = "videoController.tick" /\ ~last.lcdOn0 /\ last.n > 1
  /\ vc.frameTick = LastVisibleLine
  /\ vc.tiles.loaded
  /\ vlog = EmptyVideoLog

\* C16: in every reachable state in which the LCD is off, also after the
\* LCD was switched off in mid-frame and tick was called, frameTick is 0
\* and LY reads 0.
C16_LcdOffResetsFrame ==
  (~LcdOn /\ panic = "") => (vc.frameTick = 0 /\ at(Current, lyAddr) = 0)

----------------------------------------------------------------------------
(* SpecFrame: whole frames.  The CPU switches the LCD on and sets IE; the  *)
(* controller is ticked by a frame, by its visible part or by its VBlank.  *)

FrameWrites == {<<lcdcAddr, 145>>, <<ieAddr, 1>>}

FrameTicks ==
  {fullFrameClocks, scanLineFullClocks * screenHeight, verticalBlankClocks}

InitFrame == \E ime \in BOOLEAN : Start(Constructed(ime))

NextFrame ==
  \/ CpuSet(FrameWrites, MaxFrameOps)
  \/ VideoTick(FrameTicks, MaxFrameOps)

SpecFrame == InitFrame /\ [][NextFrame]_vars

VBlankInterruptOn == interruptsEnabled /\ Bit(at(Current, ieAddr), 0) = 1

\* C17: with the LCD on, tick(70224) from frameTick = 0 presents the frame
\* exactly once and ends with frameTick = 0; if the master interrupt flag
\* and IE bit 0 are set it sets IF bit 0 exactly once, in the cycle with
\* frameTick = 65664 in which the scan line goes from 143 to 144; if either
\* is clear no call of tick lets the controller set IF bit 0.
C17_VBlankOncePerFrame ==
  /\ (last.op = "videoController.tick" /\ last.lcdOn0 /\ last.frameTick0 = 0
        /\ last.n = fullFrameClocks) =>
       /\ panic = ""
       /\ vc.frameTick = 0
       /\ vlog.presents = 1
       /\ VBlankInterruptOn =>
            /\ Len(vlog.vblank) = 1
            /\ vlog.vblank[1].tick = scanLineFullClocks * screenHeight
            /\ (vlog.vblank[1].tick - 1) \div scanLineFullClocks = screenHeight - 1
            /\ at(Current, ifAddr) = OrBit(last.if0, 0)
  /\ (last.op = "videoController.tick" /\ ~VBlankInterruptOn) =>
       /\ vlog.vblank = <<>>
       /\ at(Current, ifAddr) = last.if0

C17_Witness ==
  /\ last.op = "videoController.tick" /\ last.lcdOn0 /\ last.frameTick0 = 0
  /\ last.n = fullFrameClocks
  /\ VBlankInterruptOn
  /\ last.if0 = 0 /\ at(Current, ifAddr) = 1
  /\ vlog.presents = 1 /\ Len(vlog.draws) = screenHeight

----------------------------------------------------------------------------
(* SpecTiles: bgTileAt and loadTile on a controller that has loaded the    *)
(* scroll registers, LCDC and the tiles during the first 81 cycles of a    *)
(* frame.                                                                  *)

ScrollBytes == {0, 97, 127, 128, 200}
RowBytes == {0, 255, 165, 60}
LcdcBytes == {145, 129}
TileRows == {0, 7}

ScreenXs == {0, 7, 56, 129, 159}
ScreenYs == {0, 9, 129, 143}
TileIDs == {0, 1, 255}

\* The CPU writes LCDC, SCX, SCY and one row of tile 1 of either table, then the
\* controller runs up to the cycle that loads the tiles.
TilesAt(lcdc, scx, scy, row, lower, upper) ==
  LET M1 == set(set(set(Constructed(FALSE), lcdcAddr, lcdc), scrollXAddr, scx),
                scrollYAddr, scy)
      M2 == set(set(M1, tileDataTable1 + tileBytes + (2 * row), lower),
                tileDataTable1 + tileBytes + (2 * row) + 1, upper)
      M3 == set(set(M2, tileDataTable0 + tileBytes + (2 * row), lower),
                tileDataTable0 + tileBytes + (2 * row) + 1, upper)
  IN Settled(videoController_tick(M3, scanLineOAMClocks + 1))

InitTiles ==
  \E lcdc \in LcdcBytes, scx \in ScrollBytes, scy \in ScrollBytes,
     row \in TileRows, lower \in RowBytes, upper \in RowBytes :
    Start(TilesAt(lcdc, scx, scy, row, lower, upper))

NextTiles ==
  \/ BgTileAt(ScreenXs, ScreenYs, MaxTileOps)
  \/ LoadTile(TileIDs, MaxTileOps)

SpecTiles == InitTiles /\ [][NextTiles]_vars

\* C18: for every screen point and every SCX and SCY byte, bgTileAt uses
\* bgX = (x + SCX) mod 256 and bgY = (y + SCY) mod 256, both in [0, 256),
\* and the tile index (bgY / 8) * 32 + (bgX / 8), which is in [0, 1024).
C18_BgTileAtWraps ==
  last.op = "bgTileAt" =>
    LET bgX == (last.addr + at(Current, scrollXAddr)) % 256
        bgY == (last.val + at(Current, scrollYAddr)) % 256
    IN /\ last.out.bgX = bgX /\ last.out.bgY = bgY
       /\ last.out.bgX \in 0..255 /\ last.out.bgY \in 0..255
       /\ last.out.tileOffset = ((bgY \div 8) * 32) + (bgX \div 8)
       /\ last.out.tileOffset \in 0..1023

\* The address of the data of a tile, by table (spec.md section 4.4).
TileBase(tile) ==
  IF Bit(at(Current, lcdcAddr), 4) = 1
  THEN 32768 + (tile * 16)
  ELSE 36864 + ((IF tile >= 128 THEN tile - 256 ELSE tile) * 16)

\* C19: for the bytes lower and upper of row r of a tile, loadTile stores
\* at position r*8 + c the palette index
\* ((upper >> (7-c)) & 1) << 1 | ((lower >> (7-c)) & 1); in particular a
\* row with the bytes 0xFF, 0x00 decodes to eight 1s.
C19_LoadTileDecodesRows ==
  last.op = "loadTile" =>
    \A r \in 0..7 :
      LET lower == at(Current, TileBase(last.addr) + (2 * r))
          upper == at(Current, TileBase(last.addr) + (2 * r) + 1)
      IN /\ \A c \in 0..7 :
              last.out[(r * 8) + c + 1] = (Bit(upper, 7 - c) * 2) + Bit(lower, 7 - c)
         /\ (lower = 255 /\ upper = 0) =>
              \A c \in 0..7 : last.out[(r * 8) + c + 1] = 1

C19_Witness ==
  /\ last.op = "loadTile" /\ last.addr = 1
  /\ at(Current, TileBase(1)) = 255 /\ at(Current, TileBase(1) + 1) = 0
  /\ \A c \in 0..7 : last.out[c + 1] = 1
  /\ \A k \in 9..64 : last.out[k] = 0

----------------------------------------------------------------------------
(* SpecSplit: each subsystem ticked twice in a row, between CPU writes.    *)
(* The machine starts with the timer running and the TIMA at 0xFF, the LCD *)
(* on, a byte in work RAM for the DMA engine to copy, and the frame a few  *)
(* cycles before a change of mode, before the VBlank or before its end.    *)

SplitFrameTicks ==
  {scanLineOAMClocks - 5, (scanLineFullClocks * screenHeight) - 4,
   fullFrameClocks - 9}

SplitAt(ime, n) ==
  Settled(videoController_tick(
            set(set(set(TimaAboutToOverflow(ime), lcdcAddr, 145), ieAddr, 5),
                49408, 7),
            n))

SplitWrites ==
  {<<dmaAddr, 193>>, <<lcdcAddr, 17>>, <<tacAddr, 0>>, <<tmaAddr, 254>>}

SplitPairs == {<<0, 4>>, <<9, 7>>, <<33, 48>>}

InitSplit ==
  \E ime \in BOOLEAN, n \in SplitFrameTicks : Start(SplitAt(ime, n))

NextSplit ==
  \/ CpuSet(SplitWrites, MaxSplitOps)
  \/ TimersTickTwice(SplitPairs, MaxSplitOps)
  \/ MmuTickTwice(SplitPairs, MaxSplitOps)
  \/ VideoTickTwice(SplitPairs, MaxSplitOps)

SpecSplit == InitSplit /\ [][NextSplit]_vars

TwiceOps == {"timers.tick twice", "mmu.tick twice", "videoController.tick twice"}

\* C11: for timers.tick, mmu.tick and videoController.tick and all
\* a, b >= 0, tick(a) followed by tick(b) with no memory write in between
\* leaves the same internal state and the same memory (DIV, TIMA, IF, LY,
\* STAT, OAM, the DMA state, frameTick) as the single call tick(a + b).
C11_TickSplitsAdd ==
  last.op \in TwiceOps =>
    /\ last.out.mmu = mmu
    /\ last.out.mbc = mbc
    /\ last.out.timers = timers
    /\ last.out.vc = vc
    /\ last.out.cpu = cpu
    /\ last.out.interruptsEnabled = interruptsEnabled
    /\ last.out.panic = panic
    /\ last.out.calls = calls /\ last.out.tlog = tlog /\ last.out.vlog = vlog

\* The frame ended during the second of two video ticks.
C11_Witness ==
  /\ last.op = "videoController.tick twice" /\ last.lcdOn0
  /\ last.addr = 9 /\ last.val = 7
  /\ last.frameTick0 = fullFrameClocks - 9
  /\ vc.frameTick = 7 /\ vlog.laps = 1 /\ vlog.clears = 1
  /\ last.out.vc = vc /\ last.out.mmu = mmu

----------------------------------------------------------------------------
(* SpecObservers: further observers are registered, on registers that the  *)
(* hardware writes and on addresses that already have an observer, between *)
(* CPU writes and ticks of the three subsystems.                           *)

ObservedAddrs == {lyAddr, ifAddr, timaAddr, dividerAddr, oamRAMAddr}

ObserverFns == {"onTACWrite", "onDividerWrite"}

ObserverWrites == {<<lcdcAddr, 145>>, <<dmaAddr, 193>>, <<ieAddr, 5>>}

InitObservers ==
  \E ime \in BOOLEAN :
    \/ Start(Constructed(ime))
    \/ Start(TimaAboutToOverflow(ime))

NextObservers ==
  \/ SubscribeTo(ObservedAddrs \X ObserverFns, MaxObserverOps)
  \/ CpuSet(ObserverWrites, MaxObserverOps)
  \/ TimersTick({16}, MaxObserverOps)
  \/ MmuTick({2}, MaxObserverOps)
  \/ VideoTick({1}, MaxObserverOps)

SpecObservers == InitObservers /\ [][NextObservers]_vars

\* C21: at most one observer is registered per address: subscribeTo on an
\* address that already has an observer fails fatally and leaves the
\* observer registered before in place, and no step changes an existing
\* entry of the subscriber map.
C21_OneObserverPerAddress ==
  [][/\ (last'.op = "subscribeTo" /\ nOps' = nOps + 1
           /\ last'.addr \in DOMAIN mmu.subscribers) =>
          (panic' # "" /\ mmu'.subscribers = mmu.subscribers)
     /\ \A a \in DOMAIN mmu.subscribers :
          a \in DOMAIN mmu'.subscribers
            /\ mmu'.subscribers[a] = mmu.subscribers[a]]_vars

\* A second observer was offered for the divider register.
C21_Witness ==
  /\ last.op = "subscribeTo" /\ last.addr = dividerAddr
  /\ last.out = "onTACWrite"
  /\ panic # ""
  /\ mmu.subscribers[dividerAddr] = "onDividerWrite"

\* C25: no register update made by the hardware during a tick (DIV, TIMA
\* and IF by the timers, LY and IF by the video controller, the bytes the
\* DMA engine copies into OAM) invokes a write observer, also when one is
\* registered on the address written.
C25_HardwareWritesBypassObservers ==
  last.op \in {"timers.tick", "mmu.tick", "videoController.tick"} =>
    calls = <<>>

----------------------------------------------------------------------------
(* SpecEdge: the CPU writes TAC between calls of timers.tick.  The machine *)
(* starts freshly built, or with the timer running at one of the four      *)
(* rates and 1008 cycles ticked, when bits 3, 5, 7 and 9 of the clock are  *)
(* all 1.                                                                  *)

EdgeAt(ime, tac) ==
  Settled(timers_tick(set(Constructed(ime), tacAddr, tac), 1008))

EdgeWrites == {tacAddr} \X {0, 4, 5, 6, 7}

EdgeTicks == {0, 1, 16, 256}

InitEdge ==
  \E ime \in BOOLEAN :
    \/ Start(Constructed(ime))
    \/ \E tac \in {4, 5, 6, 7} : Start(EdgeAt(ime, tac))

NextEdge ==
  \/ CpuSet(EdgeWrites, MaxEdgeOps)
  \/ TimersTick(EdgeTicks, MaxEdgeOps)

SpecEdge == InitEdge /\ [][NextEdge]_vars

\* The clock bit TAC bits 0-1 select, and the signal it gives with the TAC
\* enable bit.
SelectedBit(tac) ==
  CASE tac % 4 = 0 -> 9
    [] tac % 4 = 1 -> 3
    [] tac % 4 = 2 -> 5
    [] tac % 4 = 3 -> 7

Signal(clock, tac) ==
  IF Bit(tac, 2) = 1 THEN Bit(clock, SelectedBit(tac)) ELSE 0

\* The cycles of the last call of timers.tick in which the signal was 1 in
\* the cycle before and is 0.
FallingEdges ==
  LET tac == at(Current, tacAddr)
      before(c) == IF c = 1 THEN last.delay0
                   ELSE Signal(U16(last.clock0 + c - 1), tac)
  IN {c \in 1..last.n : before(c) = 1 /\ Signal(U16(last.clock0 + c), tac) = 0}

\* C24: in timers.tick the TIMA is incremented in exactly the cycles in
\* which the signal (selected clock bit AND TAC enable; TAC bits 0-1 select
\* bit 9, 3, 5, 7) was 1 in the cycle before and is 0; the signal of the
\* last cycle is carried to the next call, so a timer disabled while the
\* signal was 1 gets one final increment and none after it.
C24_TimaCountsFallingEdges ==
  /\ last.op = "timers.tick" =>
       /\ tlog.incs = Cardinality(FallingEdges)
       /\ timers.timaDelay =
            IF last.n = 0 THEN last.delay0
            ELSE Signal(timers.cpuClock, at(Current, tacAddr))
       /\ Bit(at(Current, tacAddr), 2) = 0 =>
            tlog.incs = IF last.delay0 = 1 /\ last.n > 0 THEN 1 ELSE 0
  /\ last.op = "set" => timers.timaDelay = last.delay0

\* The timer was stopped while the signal was 1 and then ticked.
C24_Witness ==
  /\ last.op = "timers.tick" /\ last.n = 16
  /\ Bit(at(Current, tacAddr), 2) = 0
  /\ last.delay0 = 1
  /\ tlog.incs = 1
  /\ timers.timaDelay = 0

----------------------------------------------------------------------------
(* CPU operations on the environment: interrupt toggles and rotations of   *)
(* register A.  Each returns the machine and the cycles the instruction    *)
(* takes.                                                                  *)

\* env.regs[r].get() and env.regs[r].set(v): an 8-bit register keeps the
\* low byte of the value stored.
regGet(M, r) == M.cpu.regs[r]

regSet(M, r, v) == [M EXCEPT !.cpu.regs[r] = U8(v)]

\* The four flag accessors of the environment.
getCarryFlag(M) == M.cpu.flags.carry

setCarryFlag(M, on) == [M EXCEPT !.cpu.flags.carry = on]

setZeroFlag(M, on) == [M EXCEPT !.cpu.flags.zero = on]

setSubtractFlag(M, on) == [M EXCEPT !.cpu.flags.subtract = on]

setHalfCarryFlag(M, on) == [M EXCEPT !.cpu.flags.halfCarry = on]

\* bits.RotateLeft8(x, -1).
RotateRight8(x) == (x \div 2) + (x % 2) * 128

di_clearsFlagAtOnce(M) ==
  [m |-> [M EXCEPT !.cpu.disableInterruptsTimer = 2,
                   !.interruptsEnabled = FALSE],
   ret |-> 4]

di(M) == [m |-> [M EXCEPT !.cpu.disableInterruptsTimer = 2], ret |-> 4]

ei(M) == [m |-> [M EXCEPT !.cpu.enableInterruptsTimer = 2], ret |-> 4]

\* carryBit is A & 0x80, that is 0 or 128, and is compared with 1.
rrca(M) ==
  LET rotated == RotateRight8(regGet(M, "A"))
      M1 == regSet(M, "A", rotated)
      M2 == setHalfCarryFlag(setSubtractFlag(setZeroFlag(M1, FALSE), FALSE),
                             FALSE)
      carryBit == Bit(regGet(M2, "A"), 7) * 128
  IN [m |-> setCarryFlag(M2, carryBit = 1), ret |-> 4]

rla(M) ==
  LET oldVal == regGet(M, "A")
      msb == Bit(oldVal, 7)
      oldCarryVal == IF getCarryFlag(M) THEN 1 ELSE 0
      shifted == U8(oldVal * 2)
      newVal == IF oldCarryVal = 1 THEN OrBit(shifted, 0) ELSE shifted
      M1 == setCarryFlag(M, msb = 1)
      M2 == setHalfCarryFlag(setSubtractFlag(setZeroFlag(M1, FALSE), FALSE),
                             FALSE)
  IN [m |-> regSet(M2, "A", newVal), ret |-> 4]

rra_dropsCarryIn(M) ==
  LET oldVal == regGet(M, "A")
      lsb == Bit(oldVal, 0)
      newVal == oldVal \div 2
      M1 == setCarryFlag(M, lsb = 1)
      M2 == setHalfCarryFlag(setSubtractFlag(setZeroFlag(M1, FALSE), FALSE),
                             FALSE)
  IN [m |-> regSet(M2, "A", newVal), ret |-> 4]

rra(M) ==
  LET oldVal == regGet(M, "A")
      lsb == Bit(oldVal, 0)
      oldCarryVal == IF getCarryFlag(M) THEN 1 ELSE 0
      shifted == oldVal \div 2
      newVal == IF oldCarryVal = 1 THEN OrBit(shifted, 7) ELSE shifted
      M1 == setCarryFlag(M, lsb = 1)
      M2 == setHalfCarryFlag(setSubtractFlag(setZeroFlag(M1, FALSE), FALSE),
                             FALSE)
  IN [m |-> regSet(M2, "A", newVal), ret |-> 4]

\* n executions of rla, one after the other.
RECURSIVE rlaTimes(_, _)
rlaTimes(M, n) == IF n = 0 THEN M ELSE rlaTimes(rla(M).m, n - 1)

\* One instruction: the machine after it, and in last.out the cycles it
\* returned, the registers, flags and countdowns before it, and the
\* operation before it.
Instr(op, r, max) ==
  /\ panic = ""
  /\ nOps < max
  /\ Commit(r.m)
  /\ last' = [NoOp EXCEPT !.op = op,
                          !.out = [ret |-> r.ret, cpu0 |-> cpu,
                                   prev |-> last.op]]
  /\ nOps' = nOps + 1
  /\ UNCHANGED dmaTrack

Di(max) == Instr("di", di(Machine), max)

Ei(max) == Instr("ei", ei(Machine), max)

Rrca(max) == Instr("rrca", rrca(Machine), max)

Rla(max) == Instr("rla", rla(Machine), max)

Rra(max) == Instr("rra", rra(Machine), max)

RlaNineTimes(max) ==
  Instr("rla x9", [m |-> rlaTimes(Machine, 9), ret |-> 9 * 4], max)

----------------------------------------------------------------------------
(* SpecCPU: the interrupt toggles and the rotations of A, from every value *)
(* of A and of the carry flag, with the other three flags set.             *)

MaxCpuOps == 2

CpuAt(ime, a, c) ==
  LET M == regSet(Constructed(ime), "A", a)
  IN setCarryFlag(setHalfCarryFlag(setSubtractFlag(setZeroFlag(M, TRUE),
                                                   TRUE), TRUE), c)

InitCPU ==
  \E ime \in BOOLEAN, a \in 0..255, c \in BOOLEAN : Start(CpuAt(ime, a, c))

NextCPU ==
  \/ Di(MaxCpuOps)
  \/ Ei(MaxCpuOps)
  \/ Rrca(MaxCpuOps)
  \/ Rla(MaxCpuOps)
  \/ Rra(MaxCpuOps)
  \/ RlaNineTimes(MaxCpuOps)

SpecCPU == InitCPU /\ [][NextCPU]_vars

\* C22: di only sets disableInterruptsTimer to 2 and ei only sets
\* enableInterruptsTimer to 2; each leaves the master interrupt flag, the
\* other countdown, the registers, the flags and memory as they were, and
\* each returns 4 cycles.
C22_ToggleOnlyArmsCountdown ==
  [][/\ (nOps' = nOps + 1 /\ last'.op = "di") =>
          /\ cpu' = [cpu EXCEPT !.disableInterruptsTimer = 2]
          /\ UNCHANGED <<mmu, mbc, timers, vc, interruptsEnabled, panic>>
          /\ last'.out.ret = 4
     /\ (nOps' = nOps + 1 /\ last'.op = "ei") =>
          /\ cpu' = [cpu EXCEPT !.enableInterruptsTimer = 2]
          /\ UNCHANGED <<mmu, mbc, timers, vc, interruptsEnabled, panic>>
          /\ last'.out.ret = 4]_vars

\* ei ran while the di countdown was armed and interrupts were enabled.
C22_Witness ==
  /\ last.op = "ei"
  /\ last.out.cpu0.disableInterruptsTimer = 2
  /\ last.out.cpu0.enableInterruptsTimer = 0
  /\ cpu.disableInterruptsTimer = 2
  /\ cpu.enableInterruptsTimer = 2
  /\ interruptsEnabled

\* C23: rrca rotates A right by one, so that the old bit 0 becomes bit 7,
\* stores the old bit 0 in the carry flag, and clears the zero, subtract
\* and half-carry flags.
C23_RrcaCarryIsOldBit0 ==
  last.op = "rrca" =>
    LET a0 == last.out.cpu0.regs["A"]
    IN /\ cpu.regs["A"] = (a0 \div 2) + Bit(a0, 0) * 128
       /\ cpu.flags.carry = (Bit(a0, 0) = 1)
       /\ ~cpu.flags.zero
       /\ ~cpu.flags.subtract
       /\ ~cpu.flags.halfCarry

\* A with the carry flag on top of it as bit 8, and the two rotations of
\* that 9-bit value by one.
Pair(c) == c.regs["A"] + (IF c.flags.carry THEN 256 ELSE 0)

RotateLeft9(v) == ((v * 2) % 512) + (v \div 256)

RotateRight9(v) == (v \div 2) + (v % 2) * 256

\* C27: rla rotates the 9-bit value (carry, A) left by one and rra rotates
\* it right by one; rla followed by rra, and rra followed by rla, give back
\* the A and the carry flag they started from, and so do nine rla in a row.
C27_RlaRraAreInverse ==
  [][nOps' = nOps + 1 =>
       /\ last'.op = "rla" => Pair(cpu') = RotateLeft9(Pair(cpu))
       /\ last'.op = "rra" => Pair(cpu') = RotateRight9(Pair(cpu))
       /\ (last.op = "rla" /\ last'.op = "rra") =>
            Pair(cpu') = Pair(last.out.cpu0)
       /\ (last.op = "rra" /\ last'.op = "rla") =>
            Pair(cpu') = Pair(last.out.cpu0)
       /\ last'.op = "rla x9" => Pair(cpu') = Pair(cpu)]_vars

\* rla took A = 0x81 with the carry set to A = 0x03 with the carry set, and
\* the rra after it brought both back.
C27_Witness ==
  /\ last.op = "rra" /\ last.out.prev = "rla"
  /\ Pair(last.out.cpu0) = 256 + 3
  /\ Pair(cpu) = 256 + 129

====
